---- MODULE Spec2Model ----
(***************************************************************************)
(* Model of the two bar-chart components of vue-D3js:                      *)
(*   SimpleBarChart.vue      (vertical,   src/unnamed/part_003)            *)
(*   HorizontalBarChart.vue  (horizontal, src/src/components/charts/)      *)
(* Both are a Vue <script setup> component that owns a tooltip ref, draws  *)
(* with D3 inside renderChart(), runs renderChart on mount and from a deep *)
(* watcher on props.data, and hides the tooltip in onUnmounted.            *)
(*                                                                         *)
(* Pixel values are exact rationals <<num, den>> (den > 0, lowest terms);  *)
(* d3.scaleBand / d3.scaleLinear are computed the way d3-scale does.       *)
(*                                                                         *)
(* The module also covers the demo host view (src/src/App.vue) and the two *)
(* CI scripts scripts/secret-scan.js (variable scan) and                   *)
(* scripts/copilot-agent-review.js (variable review).                      *)
(***************************************************************************)
EXTENDS Integers, Sequences, FiniteSets, TLC

VARIABLES chart, phase, svgRef, props, pending, svg, bars, scales, tooltip,
          hover, event, emitted, scan, review

vars == <<chart, phase, svgRef, props, pending, svg, bars, scales, tooltip,
          hover, event, emitted, scan, review>>

\* the variables of a chart instance
chartVars == <<chart, phase, svgRef, props, pending, svg, bars, scales, tooltip,
               hover, event, emitted>>

(* ------------------------------ bounds -------------------------------- *)
NumIds == 2
MaxLen == 2
MaxBars == 5
MaxDiffLen == 5

(* --------------------------- rational numbers ------------------------- *)
RECURSIVE GCD(_, _)
GCD(a, b) == IF b = 0 THEN a ELSE GCD(b, a % b)

Abs(n) == IF n < 0 THEN 0 - n ELSE n

Norm(n, d) ==
  LET s == IF d < 0 THEN 0 - 1 ELSE 1
      g == GCD(Abs(n), Abs(d))
  IN <<(s * n) \div g, (s * d) \div g>>

R(n) == <<n, 1>>
RAdd(a, b) == Norm(a[1] * b[2] + b[1] * a[2], a[2] * b[2])
RSub(a, b) == Norm(a[1] * b[2] - b[1] * a[2], a[2] * b[2])
RMul(a, b) == Norm(a[1] * b[1], a[2] * b[2])
RDiv(a, b) == Norm(a[1] * b[2], a[2] * b[1])
RLt(a, b) == a[1] * b[2] < b[1] * a[2]
RLe(a, b) == a[1] * b[2] <= b[1] * a[2]
RMax(a, b) == IF RLt(a, b) THEN b ELSE a

(* ------------------------------ data ---------------------------------- *)
LabelNames == <<"A", "B", "C", "D", "E", "F", "G", "H">>

Ids == 1..NumIds

\* the value carried by the point with id i: 0 for the first id, so that a
\* zero-valued bar and an all-zero array are among the inputs
ValueOf(i) == i - 1

\* ChartData: { id, label, value }
ChartData == {[id |-> i, label |-> LabelNames[i], value |-> ValueOf(i)] : i \in Ids}

\* data arrays a caller may pass: ids unique within one array, may be empty
DataArrays ==
  {s \in UNION {[1..n -> ChartData] : n \in 0..MaxLen} :
     \A i, j \in DOMAIN s : i # j => s[i].id # s[j].id}

(* --------------------------- component props -------------------------- *)
\* withDefaults(defineProps<Props>(), {...})
DefaultWidth(c) == IF c = "vertical" THEN 600 ELSE 700
DefaultHeight(c) == 400
DefaultTooltipOffsetX(c) == IF c = "vertical" THEN 20 ELSE 10
\* tooltipOffset (vertical) / tooltipOffsetY (horizontal)
DefaultTooltipOffsetY(c) == IF c = "vertical" THEN 130 ELSE 0 - 10

\* offsets a caller may configure instead of the defaults
CustomOffsets == {<<0, 0>>}

Offsets(c) == {<<DefaultTooltipOffsetX(c), DefaultTooltipOffsetY(c)>>} \cup CustomOffsets

\* widths and heights a caller may configure instead of the defaults; the
\* second leaves no room inside the margins of either chart
CustomSizes == {<<800, 500>>, <<60, 50>>}

Sizes(c) == {<<DefaultWidth(c), DefaultHeight(c)>>} \cup CustomSizes

\* const margin = {...}
Margin(c) ==
  IF c = "vertical"
  THEN [top |-> 20, right |-> 20, bottom |-> 40, left |-> 50]
  ELSE [top |-> 20, right |-> 30, bottom |-> 40, left |-> 120]

InnerWidth(c, w) == w - Margin(c).left - Margin(c).right
InnerHeight(c, h) == h - Margin(c).top - Margin(c).bottom

BaseFill(c) == IF c = "vertical" THEN "steelblue" ELSE "#4a90e2"
HighlightFill(c) == IF c = "vertical" THEN "orange" ELSE "#ff6b6b"

(* ------------------------------ scales -------------------------------- *)
\* .padding(0.1) in the vertical chart, .padding(0.2) in the horizontal one
BandPadding(c) == IF c = "vertical" THEN <<1, 10>> ELSE <<1, 5>>

\* props.data.map(d => d.label) as a band domain: distinct labels, first
\* occurrence first
RECURSIVE Distinct(_)
Distinct(s) ==
  IF s = <<>> THEN <<>>
  ELSE LET init == Distinct(SubSeq(s, 1, Len(s) - 1))
           last == s[Len(s)]
       IN IF \E k \in DOMAIN init : init[k] = last THEN init ELSE Append(init, last)

BandDomain(d) == Distinct([i \in DOMAIN d |-> d[i].label])

\* d3.max(props.data, d => d.value) || 0
RECURSIVE SeqMax(_)
SeqMax(s) ==
  IF Len(s) = 1 THEN s[1]
  ELSE LET m == SeqMax(SubSeq(s, 1, Len(s) - 1))
       IN IF s[Len(s)] > m THEN s[Len(s)] ELSE m

MaxValueOf(d) == IF d = <<>> THEN 0 ELSE SeqMax([i \in DOMAIN d |-> d[i].value])

\* d3-scale band.js rescale(): range [0, extent], paddingInner = paddingOuter = p,
\* align = 0.5, no rounding. A range with extent < 0 is reversed: start is the
\* smaller end, the step stays positive and the bands are laid out backwards
BandStep(n, extent, p) ==
  RDiv(R(Abs(extent)), RMax(R(1), RAdd(RSub(R(n), p), RMul(R(2), p))))

BandStart(n, extent, p) ==
  RAdd(R(IF extent < 0 THEN extent ELSE 0),
       RMul(RSub(R(Abs(extent)), RMul(BandStep(n, extent, p), RSub(R(n), p))), <<1, 2>>))

Bandwidth(n, extent, p) == RMul(BandStep(n, extent, p), RSub(R(1), p))

IndexOf(dom, label) ==
  IF \E k \in DOMAIN dom : dom[k] = label
  THEN CHOOSE k \in DOMAIN dom : dom[k] = label
  ELSE 0

\* bandScale(label) || 0
BandPos(dom, extent, p, label) ==
  IF IndexOf(dom, label) = 0 THEN R(0)
  ELSE LET k == IF extent < 0 THEN Len(dom) - IndexOf(dom, label)
                ELSE IndexOf(dom, label) - 1
       IN RAdd(BandStart(Len(dom), extent, p), RMul(BandStep(Len(dom), extent, p), R(k)))

\* a linear scale whose range ends are swapped
LinearFlipped(max, r0, r1, v) ==
  LET tt == IF max = 0 THEN <<1, 2>> ELSE RDiv(R(v), R(max))
  IN RAdd(RMul(R(r1), RSub(R(1), tt)), RMul(R(r0), tt))

\* d3.scaleLinear().domain([0, max]).range([r0, r1]) applied to v; a collapsed
\* domain normalises every input to 0.5
Linear(max, r0, r1, v) ==
  LET tt == IF max = 0 THEN <<1, 2>> ELSE RDiv(R(v), R(max))
  IN RAdd(RMul(R(r0), RSub(R(1), tt)), RMul(R(r1), tt))

\* the scales (and the values renderChart's handlers close over) of one pass
MakeScales(c, d, w, h) ==
  [labels |-> BandDomain(d),
   max    |-> MaxValueOf(d),
   innerWidth  |-> InnerWidth(c, w),
   innerHeight |-> InnerHeight(c, h)]

NoScales == [labels |-> <<>>, max |-> 0, innerWidth |-> 0, innerHeight |-> 0]

\* vertical chart: xScale (band over innerWidth), yScale (linear, range [innerHeight, 0])
XScaleV(sc, label) == BandPos(sc.labels, sc.innerWidth, BandPadding("vertical"), label)
YScaleV(sc, v) == Linear(sc.max, sc.innerHeight, 0, v)
BarWidthV(sc) == Bandwidth(Len(sc.labels), sc.innerWidth, BandPadding("vertical"))

\* horizontal chart: xScale (linear, range [0, innerWidth]), yScale (band over innerHeight)
XScaleH(sc, v) == Linear(sc.max, 0, sc.innerWidth, v)
YScaleH(sc, label) == BandPos(sc.labels, sc.innerHeight, BandPadding("horizontal"), label)
BarHeightH(sc) == Bandwidth(Len(sc.labels), sc.innerHeight, BandPadding("horizontal"))

(* --------------------------- rendered bars ---------------------------- *)
\* attributes of the rect joined to datum d
BarGeomV(sc, d) ==
  [x |-> XScaleV(sc, d.label),
   y |-> YScaleV(sc, d.value),
   width |-> BarWidthV(sc),
   height |-> RSub(R(sc.innerHeight), YScaleV(sc, d.value))]

BarGeomH(sc, d) ==
  [x |-> R(0),
   y |-> YScaleH(sc, d.label),
   width |-> XScaleH(sc, d.value),
   height |-> BarHeightH(sc)]

BarGeom(c, sc, d) == IF c = "vertical" THEN BarGeomV(sc, d) ELSE BarGeomH(sc, d)

Els(bs) == {bs[i].el : i \in DOMAIN bs}

\* DOM nodes created by a pass are new nodes: none of them is a node that
\* was on the surface before the pass
ElBlock == MaxLen + MaxBars

FreshBase(old) == IF old = {} \/ (\E e \in old : e > ElBlock) THEN 0 ELSE ElBlock

\* a join that loses the last datum
JoinBarsDropLast(c, sc, d, old) ==
  [i \in 1..(Len(d) - 1) |->
     LET geom == BarGeom(c, sc, d[i])
     IN [el |-> FreshBase(Els(old)) + i,
         d |-> d[i],
         x |-> geom.x,
         y |-> geom.y,
         width |-> geom.width,
         height |-> geom.height,
         fill |-> BaseFill(c)]]

\* selectAll('*').remove() followed by selectAll('rect').data(d).join('rect')
\* on the emptied group: every datum enters as a new rect
JoinBars(c, sc, d, old) ==
  [i \in DOMAIN d |->
     LET geom == BarGeom(c, sc, d[i])
     IN [el |-> FreshBase(Els(old)) + i,
         d |-> d[i],
         x |-> geom.x,
         y |-> geom.y,
         width |-> geom.width,
         height |-> geom.height,
         fill |-> BaseFill(c)]]

(* ------------------------------ tooltip ------------------------------- *)
TooltipInit == [label |-> "", value |-> 0, x |-> R(0), y |-> R(0), visible |-> FALSE]

\* mouseenter handler of the vertical chart
TooltipAnchorV(sc, d, p) ==
  [x |-> RAdd(RAdd(XScaleV(sc, d.label), RMul(BarWidthV(sc), <<1, 2>>)),
              R(Margin("vertical").left + p.tooltipOffsetX)),
   y |-> RAdd(RAdd(RSub(YScaleV(sc, d.value), R(10)), R(p.tooltipOffsetY)),
              R(Margin("vertical").top))]

\* mouseenter handler of the horizontal chart
TooltipAnchorH(sc, d, p) ==
  [x |-> RAdd(XScaleH(sc, d.value), R(Margin("horizontal").left + p.tooltipOffsetX)),
   y |-> RAdd(RAdd(YScaleH(sc, d.label), RMul(BarHeightH(sc), <<1, 2>>)),
              R(Margin("horizontal").top + p.tooltipOffsetY))]

\* a handler that forgets the caller-configured offsets
TooltipAnchorNoOffsets(c, sc, d, p) ==
  IF c = "vertical"
  THEN TooltipAnchorV(sc, d, [p EXCEPT !.tooltipOffsetX = 0, !.tooltipOffsetY = 0])
  ELSE TooltipAnchorH(sc, d, [p EXCEPT !.tooltipOffsetX = 0, !.tooltipOffsetY = 0])

TooltipAnchor(c, sc, d, p) ==
  IF c = "vertical" THEN TooltipAnchorV(sc, d, p) ELSE TooltipAnchorH(sc, d, p)

(* ------------------------------ events -------------------------------- *)
NoEvent == [type |-> "none", target |-> 0]

Undefined == [id |-> 0, label |-> "", value |-> 0]

\* a click listener that looks the datum up by the bar's index in props.data
ClickPayloadByIndex(i) == IF i \in DOMAIN props.data THEN props.data[i] ELSE Undefined

\* the datum the click listener passes to emit('bar-click', d)
ClickPayload(i) == bars[i].d

\* a mouseleave listener that leaves the tooltip as it is
LeaveTooltipKeep(t) == t

\* tooltip.value.visible = false in the mouseleave listener
LeaveTooltip(t) == [t EXCEPT !.visible = FALSE]

\* an onUnmounted hook that leaves the tooltip as it is
UnmountedTooltipKeep(t) == t

\* tooltip.value.visible = false in onUnmounted
UnmountedTooltip(t) == [t EXCEPT !.visible = FALSE]

\* the scripts do not run while a chart is modelled
NoScan == [stage |-> "idle"]

NoReview == [stage |-> "idle"]

(* ------------------------------ actions ------------------------------- *)
Init ==
  /\ chart \in {"vertical", "horizontal"}
  /\ phase = "setup"
  /\ svgRef = FALSE
  /\ \E d \in DataArrays, o \in Offsets(chart) :
       props = [data |-> d, width |-> DefaultWidth(chart), height |-> DefaultHeight(chart),
                tooltipOffsetX |-> o[1], tooltipOffsetY |-> o[2]]
  /\ pending = FALSE
  /\ svg = [width |-> 0, height |-> 0, groups |-> 0]
  /\ bars = <<>>
  /\ scales = NoScales
  /\ tooltip = TooltipInit
  /\ hover = 0
  /\ event = NoEvent
  /\ emitted = <<>>
  /\ scan = NoScan
  /\ review = NoReview

\* a guard that forgets the template ref
RenderGuardNoRef(ref, d) == Len(d) = 0

\* if (!svgRef.value || props.data.length === 0) return
RenderGuard(ref, d) == ~ref \/ Len(d) = 0

\* function renderChart(), run with template ref `ref` and data array d
RenderChart(ref, d) ==
  IF RenderGuard(ref, d)
  THEN UNCHANGED <<svg, bars, scales, hover>>
  ELSE LET sc == MakeScales(chart, d, props.width, props.height)
       IN /\ svg' = [width |-> props.width, height |-> props.height, groups |-> 1]
          /\ scales' = sc
          /\ bars' = JoinBars(chart, sc, d, bars)
          /\ hover' = 0

\* the component is mounted: the template ref is set, then onMounted(renderChart)
Mount ==
  /\ phase = "setup"
  /\ phase' = "mounted"
  /\ svgRef' = TRUE
  /\ RenderChart(TRUE, props.data)
  /\ event' = NoEvent
  /\ emitted' = <<>>
  /\ UNCHANGED <<scan, review, chart, props, pending, tooltip>>

\* the parent replaces or mutates props.data: the deep watcher queues its job
SetData(d) ==
  /\ phase = "mounted"
  /\ props' = [props EXCEPT !.data = d]
  /\ pending' = TRUE
  /\ event' = NoEvent
  /\ emitted' = <<>>
  /\ UNCHANGED <<scan, review, chart, phase, svgRef, svg, bars, scales, tooltip, hover>>

\* the scheduler flushes the queued watcher job: watch(() => props.data, renderChart)
FlushWatch ==
  /\ phase = "mounted"
  /\ pending
  /\ pending' = FALSE
  /\ RenderChart(svgRef, props.data)
  /\ event' = NoEvent
  /\ emitted' = <<>>
  /\ UNCHANGED <<scan, review, chart, phase, svgRef, props, tooltip>>

\* Pointer events reach a rect only while it is in the document (the chart is
\* mounted), and as separate tasks: a queued watcher job is flushed in the
\* microtask checkpoint before the next event is dispatched. The browser
\* delivers enter and leave in causal order: `hover` is the rect the pointer
\* has entered and not left (0: none); a rect removed by a pass gets no leave.

\* a tooltip that shows the datum's id in place of its value
EnterTooltipShowsId(d, anchor) ==
  [label |-> d.label, value |-> d.id, x |-> anchor.x, y |-> anchor.y, visible |-> TRUE]

\* tooltip.value = { label: d.label, value: d.value, x, y, visible: true }
EnterTooltip(d, anchor) ==
  [label |-> d.label, value |-> d.value, x |-> anchor.x, y |-> anchor.y, visible |-> TRUE]

\* a fill update that takes the rect off the surface
SetFillRemoving(bs, i, f) == SubSeq(bs, 1, i - 1) \o SubSeq(bs, i + 1, Len(bs))

\* d3.select(this).attr('fill', f) on the rect of bar i
SetFill(bs, i, f) == [bs EXCEPT ![i].fill = f]

\* .on('mouseenter', function (event, d) {...}) on bar i
MouseEnter(i) ==
  /\ phase = "mounted"
  /\ ~pending
  /\ i \in DOMAIN bars
  /\ hover = 0
  /\ bars' = SetFill(bars, i, HighlightFill(chart))
  /\ tooltip' = EnterTooltip(bars[i].d, TooltipAnchor(chart, scales, bars[i].d, props))
  /\ hover' = bars[i].el
  /\ event' = [type |-> "mouseenter", target |-> bars[i].el]
  /\ emitted' = <<>>
  /\ UNCHANGED <<scan, review, chart, phase, svgRef, props, pending, svg, scales>>

\* .on('mouseleave', function () {...}) on bar i
MouseLeave(i) ==
  /\ phase = "mounted"
  /\ ~pending
  /\ i \in DOMAIN bars
  /\ hover = bars[i].el
  /\ bars' = SetFill(bars, i, BaseFill(chart))
  /\ tooltip' = LeaveTooltip(tooltip)
  /\ hover' = 0
  /\ event' = [type |-> "mouseleave", target |-> bars[i].el]
  /\ emitted' = <<>>
  /\ UNCHANGED <<scan, review, chart, phase, svgRef, props, pending, svg, scales>>

\* .on('click', (_event, d) => emit('bar-click', d)) on bar i
Click(i) ==
  /\ phase = "mounted"
  /\ ~pending
  /\ i \in DOMAIN bars
  /\ event' = [type |-> "click", target |-> bars[i].el]
  /\ emitted' = <<ClickPayload(i)>>
  /\ UNCHANGED <<scan, review, chart, phase, svgRef, props, pending, svg, bars, scales, tooltip, hover>>

\* an unmount that leaves a queued watcher job in the queue
StoppedWatcherKeepsJob(p) == p

\* the component's effect scope is stopped on unmount: a watcher job that is
\* still queued is dropped
StoppedWatcher(p) == FALSE

\* the component is unmounted: the watcher is stopped (a queued job never
\* runs), the root element leaves the document, the template ref is reset, then
\* the onUnmounted hook runs. Nothing removes the rects D3 appended: they stay
\* children of the detached svg
Unmount ==
  /\ phase = "mounted"
  /\ phase' = "unmounted"
  /\ svgRef' = FALSE
  /\ pending' = StoppedWatcher(pending)
  /\ tooltip' = UnmountedTooltip(tooltip)
  /\ hover' = 0
  /\ event' = NoEvent
  /\ emitted' = <<>>
  /\ UNCHANGED <<scan, review, chart, props, svg, bars, scales>>

Next ==
  \/ Mount
  \/ \E d \in DataArrays : SetData(d)
  \/ FlushWatch
  \/ \E i \in 1..MaxLen : MouseEnter(i)
  \/ \E i \in 1..MaxLen : MouseLeave(i)
  \/ \E i \in 1..MaxLen : Click(i)
  \/ Unmount

Spec == Init /\ [][Next]_vars

(* ------------- lifecycle with an unavailable host element ------------- *)
\* onMounted(renderChart) runs while svgRef.value is still null
MountNoTarget ==
  /\ phase = "setup"
  /\ phase' = "mounted"
  /\ svgRef' = FALSE
  /\ RenderChart(FALSE, props.data)
  /\ event' = NoEvent
  /\ emitted' = <<>>
  /\ UNCHANGED <<scan, review, chart, props, pending, tooltip>>

\* the host svg element becomes available: svgRef.value is set; nothing
\* watches svgRef, so no pass is triggered
TargetReady ==
  /\ phase = "mounted"
  /\ ~svgRef
  /\ svgRef' = TRUE
  /\ event' = NoEvent
  /\ emitted' = <<>>
  /\ UNCHANGED <<scan, review, chart, phase, props, pending, svg, bars, scales, tooltip, hover>>

\* the caller mutates the data array after the unmount: the watcher is stopped,
\* no job is queued
SetDataUnmounted(d) ==
  /\ phase = "unmounted"
  /\ props' = [props EXCEPT !.data = d]
  /\ event' = NoEvent
  /\ emitted' = <<>>
  /\ UNCHANGED <<scan, review, chart, phase, svgRef, pending, svg, bars, scales, tooltip, hover>>

DefaultOffsets ==
  /\ props.tooltipOffsetX = DefaultTooltipOffsetX(chart)
  /\ props.tooltipOffsetY = DefaultTooltipOffsetY(chart)

InitLife == Init /\ DefaultOffsets

NextLife ==
  \/ Next
  \/ MountNoTarget
  \/ TargetReady
  \/ \E d \in DataArrays : SetDataUnmounted(d)

SpecLife == InitLife /\ [][NextLife]_vars

(* ------------------- lifecycle with size prop changes ----------------- *)
\* the parent changes the width and height props: only props.data is watched,
\* so no job is queued
SetSize(s) ==
  /\ phase = "mounted"
  /\ props' = [props EXCEPT !.width = s[1], !.height = s[2]]
  /\ event' = NoEvent
  /\ emitted' = <<>>
  /\ UNCHANGED <<scan, review, chart, phase, svgRef, pending, svg, bars, scales, tooltip, hover>>

NextSize ==
  \/ Next
  \/ \E s \in Sizes(chart) : SetSize(s)

SpecSize == InitLife /\ [][NextSize]_vars

(* ---------------------- one render pass, any input -------------------- *)
ScaleMaxValue == 2

ScaleValues == (0 - 1)..ScaleMaxValue

ScaleData == {[id |-> i, label |-> LabelNames[i], value |-> v] : i \in Ids, v \in ScaleValues}

ScaleArrays ==
  {s \in UNION {[1..n -> ScaleData] : n \in 0..MaxLen} :
     \A i, j \in DOMAIN s : i # j => s[i].id # s[j].id}

InitScale ==
  /\ chart \in {"vertical", "horizontal"}
  /\ phase = "setup"
  /\ svgRef = FALSE
  /\ \E d \in ScaleArrays, s \in Sizes(chart) :
       props = [data |-> d, width |-> s[1], height |-> s[2],
                tooltipOffsetX |-> DefaultTooltipOffsetX(chart),
                tooltipOffsetY |-> DefaultTooltipOffsetY(chart)]
  /\ pending = FALSE
  /\ svg = [width |-> 0, height |-> 0, groups |-> 0]
  /\ bars = <<>>
  /\ scales = NoScales
  /\ tooltip = TooltipInit
  /\ hover = 0
  /\ event = NoEvent
  /\ emitted = <<>>
  /\ scan = NoScan
  /\ review = NoReview

NextScale == Mount

SpecScale == InitScale /\ [][NextScale]_vars

(* --------------------------- the demo host view ----------------------- *)
\* Math.floor(Math.random() * 100): two of the values 0..99
RandomValues == {0, 99}

\* String.fromCharCode(c) for the codes of the capital letters
FromCharCode(c) == LabelNames[c - 64]

\* const chartData = ref([...]); String(n) is written as the number n
InitialChartData ==
  <<[id |-> 1, label |-> "A", value |-> 30],
    [id |-> 2, label |-> "B", value |-> 80],
    [id |-> 3, label |-> "C", value |-> 45],
    [id |-> 4, label |-> "D", value |-> 60],
    [id |-> 5, label |-> "E", value |-> 20]>>

\* App.vue: <SimpleBarChart :data="chartData" :width="800" :height="500" />
InitApp ==
  /\ chart = "vertical"
  /\ phase = "setup"
  /\ svgRef = FALSE
  /\ props = [data |-> InitialChartData, width |-> 800, height |-> 500,
              tooltipOffsetX |-> DefaultTooltipOffsetX("vertical"),
              tooltipOffsetY |-> DefaultTooltipOffsetY("vertical")]
  /\ pending = FALSE
  /\ svg = [width |-> 0, height |-> 0, groups |-> 0]
  /\ bars = <<>>
  /\ scales = NoScales
  /\ tooltip = TooltipInit
  /\ hover = 0
  /\ event = NoEvent
  /\ emitted = <<>>
  /\ scan = NoScan
  /\ review = NoReview

\* a button's click handler changed chartData: the chart's deep watcher
\* queues its job. Clicks are separate tasks, so the previous job has run.
HostSetsData(d) ==
  /\ phase = "mounted"
  /\ ~pending
  /\ props' = [props EXCEPT !.data = d]
  /\ pending' = TRUE
  /\ event' = NoEvent
  /\ emitted' = <<>>
  /\ UNCHANGED <<scan, review, chart, phase, svgRef, svg, bars, scales, tooltip, hover>>

\* function randomizeData(): chartData.value.map(d => ({...d, value: random}))
RandomizeData ==
  \E v \in [DOMAIN props.data -> RandomValues] :
    HostSetsData([i \in DOMAIN props.data |-> [props.data[i] EXCEPT !.value = v[i]]])

\* the point addBar() pushes onto an array of length n
NewBar(n, v) == [id |-> n + 1, label |-> FromCharCode(65 + n), value |-> v]

\* function addBar(); the array length is capped at MaxBars
AddBar ==
  /\ Len(props.data) < MaxBars
  /\ \E v \in RandomValues : HostSetsData(Append(props.data, NewBar(Len(props.data), v)))

\* a removal that takes the first entry
ShiftBar(d) == Tail(d)

\* chartData.value.pop()
PopBar(d) == SubSeq(d, 1, Len(d) - 1)

\* function removeBar(): nothing happens on an empty array
RemoveBar ==
  /\ Len(props.data) > 0
  /\ HostSetsData(PopBar(props.data))

NextApp ==
  \/ Mount
  \/ FlushWatch
  \/ RandomizeData
  \/ AddBar
  \/ RemoveBar

SpecApp == InitApp /\ [][NextApp]_vars

(* ------------------------ scripts/secret-scan.js ---------------------- *)
\* a chart that is not mounted: the state of the chart variables while a
\* script runs
ChartIdle ==
  /\ chart = "vertical"
  /\ phase = "setup"
  /\ svgRef = FALSE
  /\ props = [data |-> <<>>, width |-> DefaultWidth("vertical"), height |-> DefaultHeight("vertical"),
              tooltipOffsetX |-> DefaultTooltipOffsetX("vertical"),
              tooltipOffsetY |-> DefaultTooltipOffsetY("vertical")]
  /\ pending = FALSE
  /\ svg = [width |-> 0, height |-> 0, groups |-> 0]
  /\ bars = <<>>
  /\ scales = NoScales
  /\ tooltip = TooltipInit
  /\ hover = 0
  /\ event = NoEvent
  /\ emitted = <<>>

\* the text a blocked pattern matches, as a sequence of character codes; texts
\* of different lengths share no prefix. 15: the shortest Slack token, 20: an
\* AWS access key, 21: 'BEGIN RSA PRIVATE KEY'
SecretLens == {15, 20, 21}

Secret(n) == [i \in 1..n |-> 100 * n + i]

Secrets == {Secret(n) : n \in SecretLens}

FileNames == {"a.ts", "b.ts"}

HunkStarts == {1, 7}

\* the lines of `git diff`: '+++ b/<name>', '@@ -a,b +<start>,d @@', a context
\* line ' ...', a removed line '-...', an added line '+...' (with the text a
\* pattern matches in it, << >> for none)
DiffLine(k, n, st, m) == [kind |-> k, name |-> n, start |-> st, match |-> m]

DiffLines ==
  {DiffLine("file", n, 0, <<>>) : n \in FileNames}
    \cup {DiffLine("hunk", "", st, <<>>) : st \in HunkStarts}
    \cup {DiffLine("context", "", 0, <<>>), DiffLine("removed", "", 0, <<>>)}
    \cup {DiffLine("added", "", 0, m) : m \in Secrets \cup {<<>>}}

\* diffs as git writes them: a file header first, a hunk header after every
\* file header, at least one changed or context line in every hunk
Diffs ==
  {d \in UNION {[1..n -> DiffLines] : n \in 0..MaxDiffLen} :
     /\ d # <<>> => d[1].kind = "file"
     /\ \A i \in DOMAIN d : d[i].kind = "file" => (i < Len(d) /\ d[i + 1].kind = "hunk")
     /\ \A i \in DOMAIN d :
          d[i].kind = "hunk" => (i < Len(d) /\ d[i + 1].kind \in {"context", "removed", "added"})}

\* the redaction marker '***'
Marker == <<0, 0, 0>>

\* the number of characters of a match that are kept
SliceLen == 20

\* matches[0].slice(0, 20)
Slice(m) == SubSeq(m, 1, IF Len(m) < SliceLen THEN Len(m) ELSE SliceLen)

\* matches[0].slice(0, 20) + '***'
Redact(m) == Slice(m) \o Marker

InitScan ==
  /\ ChartIdle
  /\ review = NoReview
  /\ \E d \in Diffs :
       scan = [stage |-> "scanning", diff |-> d, pos |-> 1, currentFile |-> "", lineNum |-> 0,
               findings |-> <<>>, report |-> <<>>, console |-> <<>>, exit |-> 0 - 1]

\* one iteration of `for (const line of lines)` in scanForSecrets
ScanLine ==
  /\ scan.stage = "scanning"
  /\ scan.pos <= Len(scan.diff)
  /\ LET line == scan.diff[scan.pos]
         next == [scan EXCEPT !.pos = scan.pos + 1]
     IN scan' =
          IF line.kind = "file"
            THEN [next EXCEPT !.currentFile = line.name, !.lineNum = 0]
          ELSE IF line.kind = "hunk"
            THEN [next EXCEPT !.lineNum = line.start - 1]
          ELSE IF line.kind # "added"
            THEN next
          ELSE IF line.match = <<>>
            THEN [next EXCEPT !.lineNum = scan.lineNum + 1]
          ELSE [next EXCEPT
                  !.lineNum = scan.lineNum + 1,
                  !.findings = Append(scan.findings,
                                 [file |-> IF scan.currentFile = "" THEN "unknown" ELSE scan.currentFile,
                                  line |-> scan.lineNum + 1,
                                  match |-> Redact(line.match)])]
  /\ UNCHANGED <<review, chartVars>>

\* main() after the scan: the report file, the console lines, the exit code
ReportScan ==
  /\ scan.stage = "scanning"
  /\ scan.pos > Len(scan.diff)
  /\ scan' = [scan EXCEPT
                !.stage = "done",
                !.report = scan.findings,
                !.console = [i \in DOMAIN scan.findings |->
                               <<scan.findings[i].file, scan.findings[i].line, scan.findings[i].match>>],
                !.exit = IF scan.findings # <<>> THEN 1 ELSE 0]
  /\ UNCHANGED <<review, chartVars>>

NextScan ==
  \/ ScanLine
  \/ ReportScan

SpecScan == InitScan /\ [][NextScan]_vars

(* -------------------- scripts/copilot-agent-review.js ----------------- *)
\* const MAX_RETRIES = 2
MAX_RETRIES == 2

\* what main() meets before it calls runCopilot: a diff, a diff of more than
\* MAX_DIFF_BYTES (truncated by collectDiff), an empty diff, or a step that
\* throws (resolveShas, readAgent, collectDiff)
ReviewInputs == {"diff", "bigdiff", "empty", "throws"}

\* stdout of a Copilot process that exits with status 0
Outputs == {"json", "invalid", "empty"}

\* no promise of runCopilot exists yet
NoPromises == [a \in 1..MAX_RETRIES |-> "none"]

InitReview ==
  /\ ChartIdle
  /\ scan = NoScan
  /\ \E in \in ReviewInputs :
       review = [stage |-> "start", input |-> in, spawns |-> 0, attempt |-> 0,
                 prompt |-> "none", child |-> "none", promise |-> NoPromises, output |-> "none",
                 outcomes |-> <<>>, reported |-> {}, file |-> "none", exit |-> 0 - 1]

\* runCopilot(prompt, a): spawn(COPILOT_BIN, args) and a new pending promise
Spawned(r, a) ==
  [r EXCEPT !.spawns = r.spawns + 1, !.attempt = a, !.child = "running",
            !.promise = [r.promise EXCEPT ![a] = "pending"]]

\* resolve(...) and reject(...) settle a promise only while it is pending
Settle(r, a, to) ==
  IF r.promise[a] = "pending" THEN [r EXCEPT !.promise = [r.promise EXCEPT ![a] = to]] ELSE r

\* main() up to `await runCopilot(prompt)`
StartMain ==
  /\ review.stage = "start"
  /\ review' =
       IF review.input = "throws"
         THEN [review EXCEPT !.stage = "threw", !.exit = 1]
       ELSE IF review.input = "empty"
         THEN [review EXCEPT !.stage = "returned", !.file = "placeholder"]
       ELSE Spawned([review EXCEPT
                       !.stage = "awaiting",
                       !.prompt = IF review.input = "bigdiff" THEN "truncated" ELSE "full"], 1)
  /\ UNCHANGED <<scan, chartVars>>

\* the state of the promise main() awaits: a promise resolved with another
\* promise follows it
RECURSIVE Awaited(_, _)
Awaited(r, a) ==
  IF r.promise[a] = "following" THEN Awaited(r, a + 1) ELSE r.promise[a]

\* the continuation of main() is queued as a microtask: it runs before the
\* next event of a child or timer is handled
MainReady(r) == r.stage = "awaiting" /\ Awaited(r, 1) \in {"fulfilled", "rejected"}

\* the process is alive and the event loop takes the next event
EventLoop == review.exit = 0 - 1 /\ ~MainReady(review)

\* child.on('error'): the process could not be spawned. Node emits 'close'
\* after 'error', so the child stays open until ChildClose
ChildError ==
  /\ EventLoop
  /\ review.child = "running"
  /\ review' = [Settle(review, review.attempt, "rejected") EXCEPT
                  !.child = "errored",
                  !.outcomes = Append(review.outcomes, "spawnerror")]
  /\ UNCHANGED <<scan, chartVars>>

\* the TIMEOUT_MS timer fires: timedOut = true, child.kill('SIGTERM')
ChildTimeout ==
  /\ EventLoop
  /\ review.child = "running"
  /\ review' = [review EXCEPT !.child = "killed", !.outcomes = Append(review.outcomes, "timeout")]
  /\ UNCHANGED <<scan, chartVars>>

\* the retry branch of child.on('close'): runCopilot(prompt, attempt + 1) is
\* called, and the promise of this attempt is resolved with the new promise
Retry(r) ==
  IF r.attempt < MAX_RETRIES
  THEN Settle(Spawned(r, r.attempt + 1), r.attempt, "following")
  ELSE [Settle(r, r.attempt, "rejected") EXCEPT !.child = "none"]

\* child.on('close', code) after a timeout, or after a failed spawn (code < 0)
ChildCloseFailed ==
  /\ EventLoop
  /\ review.child \in {"killed", "errored"}
  /\ review' = Retry(review)
  /\ UNCHANGED <<scan, chartVars>>

\* child.on('close', code) of a process that ran and exited with code # 0
ChildCloseNonZero ==
  /\ EventLoop
  /\ review.child = "running"
  /\ review' = Retry([review EXCEPT !.outcomes = Append(review.outcomes, "nonzero")])
  /\ UNCHANGED <<scan, chartVars>>

\* child.on('close', 0): resolve(stdout.trim())
ChildCloseOk(out) ==
  /\ EventLoop
  /\ review.child = "running"
  /\ review' = [Settle(review, review.attempt, "fulfilled") EXCEPT
                  !.child = "none",
                  !.output = out,
                  !.outcomes = Append(review.outcomes, "ok")]
  /\ UNCHANGED <<scan, chartVars>>

\* main() resumes after `await runCopilot(prompt)`
MainResume ==
  /\ review.exit = 0 - 1
  /\ MainReady(review)
  /\ review' =
       IF Awaited(review, 1) = "rejected" \/ review.output = "empty"
         THEN [review EXCEPT !.stage = "returned", !.file = "placeholder",
                             !.reported = review.reported \cup {1}]
       ELSE IF review.output = "json"
         THEN [review EXCEPT !.stage = "returned", !.file = "review"]
       ELSE [review EXCEPT !.stage = "threw", !.exit = 1]
  /\ UNCHANGED <<scan, chartVars>>

\* the promises that were rejected while nothing awaits or follows them
Unhandled(r) ==
  {a \in 2..MAX_RETRIES : r.promise[a] = "rejected" /\ r.promise[a - 1] # "following"} \ r.reported

\* Node reports an unhandled rejection: by default (Node 15 and later) the
\* process dies with exit code 1, with --unhandled-rejections=warn or an
\* older Node it only prints a warning
UnhandledRejection ==
  /\ EventLoop
  /\ Unhandled(review) # {}
  /\ \E dies \in BOOLEAN :
       review' = [review EXCEPT !.reported = review.reported \cup Unhandled(review),
                                !.exit = IF dies THEN 1 ELSE review.exit]
  /\ UNCHANGED <<scan, chartVars>>

\* main() has returned and nothing is left to wait for: the process exits 0
ProcessExit ==
  /\ EventLoop
  /\ review.stage = "returned"
  /\ review.child = "none"
  /\ Unhandled(review) = {}
  /\ review' = [review EXCEPT !.exit = 0]
  /\ UNCHANGED <<scan, chartVars>>

NextReview ==
  \/ StartMain
  \/ ChildError
  \/ ChildTimeout
  \/ ChildCloseFailed
  \/ ChildCloseNonZero
  \/ \E out \in Outputs : ChildCloseOk(out)
  \/ MainResume
  \/ UnhandledRejection
  \/ ProcessExit

SpecReview == InitReview /\ [][NextReview]_vars

(* ------------------------ properties of the charts -------------------- *)
IdsOf(d) == {d[i].id : i \in DOMAIN d}

\* a step in which renderChart ran: the mount, or the flush of the watcher job
RenderPassStep ==
  \/ phase = "setup" /\ phase' = "mounted"
  \/ pending /\ ~pending' /\ phase' = "mounted"

\* the bar the pointer is inside
HoveredBar == CHOOSE i \in DOMAIN bars : bars[i].el = hover

\* C1: on a mounted chart with no render pass pending, the number of rendered
\* bars equals the length of the current data array (zero bars for an empty array).
C1_BarsMatchData ==
  (phase = "mounted" /\ ~pending) => Len(bars) = Len(props.data)

\* C2: the tooltip is never visible between a data change and the render pass
\* that follows it.
C2_HiddenWhilePending == pending => ~tooltip.visible

C4_KeyedReconcile ==
  [][RenderPassStep =>
       /\ \A i \in DOMAIN bars, j \in DOMAIN bars' :
            bars[i].d.id = bars'[j].d.id => bars'[j].el = bars[i].el
       /\ \A j \in DOMAIN bars' :
            bars'[j].d.id \notin {bars[i].d.id : i \in DOMAIN bars}
              => bars'[j].el \notin Els(bars)
       /\ IdsOf(props'.data) = {bars'[j].d.id : j \in DOMAIN bars'}]_vars

\* C5: for every render pass, |toCreate| + |toUpdate| = |newData| and
\* |toUpdate| + |toRemove| = |previous|, where the created elements are those
\* new on the surface, the updated ones those kept, the removed ones those gone.
C5_Completeness ==
  [][RenderPassStep =>
       LET created == Els(bars') \ Els(bars)
           updated == Els(bars') \cap Els(bars)
           removed == Els(bars) \ Els(bars')
       IN /\ Cardinality(created) + Cardinality(updated) = Len(props'.data)
          /\ Cardinality(updated) + Cardinality(removed) = Len(bars)]_vars

\* C6: the element of a data point that left the data array is still on the
\* surface right after the render pass (it is destroyed only after its exit
\* animation).
C6_ExitAfterAnimation ==
  [][RenderPassStep =>
       \A i \in DOMAIN bars :
          bars[i].d.id \notin IdsOf(props'.data) => bars[i].el \in Els(bars')]_vars

\* C7: once the chart is unmounted no rendered element remains and the tooltip
\* is hidden.
C7_UnmountDestroys ==
  phase = "unmounted" => (bars = <<>> /\ ~tooltip.visible)

\* C8: a click on a bar emits exactly one bar-click whose payload is the datum
\* bound to the clicked element; nothing else emits.
C8_ClickEmitsBoundDatum ==
  /\ event.type = "click" =>
        \E i \in DOMAIN bars : bars[i].el = event.target /\ emitted = <<bars[i].d>>
  /\ event.type # "click" => emitted = <<>>

\* a click on a bar that is not at its datum's place in props.data any more
C8_Witness ==
  /\ event.type = "click"
  /\ \E i \in DOMAIN bars :
       bars[i].el = event.target /\ (i \notin DOMAIN props.data \/ props.data[i] # bars[i].d)

\* C9: while the pointer is inside a bar, the tooltip shows that bar's label
\* and value, is visible, and sits at the anchor given by the bar's rendered
\* geometry, the margin and the configured offsets.
C9_TooltipAtAnchor ==
  hover # 0 =>
    LET b == bars[HoveredBar]
        m == Margin(chart)
    IN /\ tooltip.visible
       /\ tooltip.label = b.d.label
       /\ tooltip.value = b.d.value
       /\ chart = "vertical" =>
            /\ tooltip.x = RAdd(RAdd(b.x, RMul(b.width, <<1, 2>>)),
                                R(m.left + props.tooltipOffsetX))
            /\ tooltip.y = RAdd(RSub(b.y, R(10)), R(props.tooltipOffsetY + m.top))
       /\ chart = "horizontal" =>
            /\ tooltip.x = RAdd(RAdd(b.x, b.width), R(m.left + props.tooltipOffsetX))
            /\ tooltip.y = RAdd(RAdd(b.y, RMul(b.height, <<1, 2>>)),
                                R(m.top + props.tooltipOffsetY))

\* the pointer is inside the second of two bars, with non-default offsets
C9_Witness ==
  /\ hover # 0
  /\ Len(bars) = 2
  /\ HoveredBar = 2
  /\ props.tooltipOffsetX = 0

\* C10: a mouseleave leaves the tooltip hidden, and a hidden tooltip becomes
\* visible only through a mouseenter.
C10_LeaveWins ==
  [][/\ event'.type = "mouseleave" => ~tooltip'.visible
     /\ (~tooltip.visible /\ tooltip'.visible) => event'.type = "mouseenter"]_vars

C10_Witness == event.type = "mouseleave" /\ tooltip.label # ""

\* the data bound to the rendered bars, in order
BoundData == [i \in DOMAIN bars |-> bars[i].d]

\* C11: a render pass that runs while the host svg element is unavailable is
\* a no-op (no element, surface, scales and tooltip untouched, nothing is
\* rendered while the target is missing), and a later pass with the target
\* available renders one bar per point of a non-empty data array.
C11_NoTargetNoOp ==
  [][/\ (RenderPassStep /\ ~svgRef') =>
          (bars' = bars /\ svg' = svg /\ scales' = scales /\ tooltip' = tooltip)
     /\ (phase' = "mounted" /\ ~svgRef') => (svg'.groups = 0 /\ bars' = <<>>)
     /\ (RenderPassStep /\ svgRef' /\ props'.data # <<>>) =>
          (svg'.groups = 1 /\ [i \in DOMAIN bars' |-> bars'[i].d] = props'.data)]_vars

\* mounted without a target although there is data to draw
C11_Witness ==
  phase = "mounted" /\ ~svgRef /\ ~pending /\ props.data # <<>> /\ bars = <<>>

\* C12: mounting with an empty data array leaves the svg in place with zero
\* bars, and the first pass after that for a non-empty array renders exactly
\* one bar per data point, in order.
C12_EmptyMountThenData ==
  [][/\ (phase = "setup" /\ phase' = "mounted" /\ props.data = <<>>) =>
          (svgRef' /\ bars' = <<>>)
     /\ (phase = "mounted" /\ svg.groups = 0 /\ RenderPassStep /\ props'.data # <<>>) =>
          (Len(bars') = Len(props'.data)
           /\ [i \in DOMAIN bars' |-> bars'[i].d] = props'.data)]_vars

\* mounted with an empty array: nothing drawn yet, a non-empty array is waiting
C12_Witness ==
  phase = "mounted" /\ svgRef /\ svg.groups = 0 /\ bars = <<>> /\ pending /\ Len(props.data) = 2

\* C13: right after the mount the svg's width and height attributes equal the
\* width and height props, whatever the data array (the empty one included).
C13_SurfaceSized ==
  [][(phase = "setup" /\ phase' = "mounted" /\ svgRef') =>
       (svg'.width = props'.width /\ svg'.height = props'.height)]_vars

\* C14: on a mounted chart with a non-empty data array and no pass pending,
\* the scales and the bars' geometry are those of the current data array and
\* the current width and height props.
C14_ScalesCurrent ==
  (phase = "mounted" /\ svgRef /\ ~pending /\ props.data # <<>>) =>
    LET sc == MakeScales(chart, props.data, props.width, props.height)
    IN /\ scales = sc
       /\ \A i \in DOMAIN bars :
            LET geom == BarGeom(chart, sc, bars[i].d)
            IN /\ bars[i].x = geom.x
               /\ bars[i].y = geom.y
               /\ bars[i].width = geom.width
               /\ bars[i].height = geom.height

\* C15: once every pending render pass has run, the rendered elements are
\* bound, in order, to the entries of the most recent data array and carry
\* the geometry that array gives them, never those of an older array.
C15_NewestWins ==
  (phase = "mounted" /\ svgRef /\ ~pending) =>
    /\ BoundData = props.data
    /\ \A i \in DOMAIN bars :
         LET geom == BarGeom(chart, MakeScales(chart, props.data, props.width, props.height), bars[i].d)
         IN <<bars[i].x, bars[i].y, bars[i].width, bars[i].height>> =
              <<geom.x, geom.y, geom.width, geom.height>>

\* the coordinator's state as a position on Unmounted -> Initialized ->
\* Rendered -> Unmounted: 0 before a mount with a valid target, 1 mounted with
\* nothing drawn, 2 mounted with a drawn chart, 3 after the unmount
CoordRank ==
  IF phase = "unmounted" THEN 3
  ELSE IF phase = "mounted" /\ svgRef /\ svg.groups = 1 THEN 2
  ELSE IF phase = "mounted" /\ svgRef THEN 1
  ELSE 0

\* C16: the coordinator's state never moves backwards on Unmounted ->
\* Initialized -> Rendered -> Unmounted, a render pass in Rendered leaves it in
\* Rendered, and a step that ends outside the mounted phase runs no render
\* pass: it creates no element, leaves surface and scales alone, and leaves no
\* watcher job queued.
C16_StateMachine ==
  [][/\ CoordRank' >= CoordRank
     /\ (CoordRank = 2 /\ RenderPassStep) => CoordRank' = 2
     /\ (CoordRank = 2 /\ props'.data # props.data /\ phase' = "mounted") => CoordRank' = 2
     /\ phase' # "mounted" =>
          (bars' = bars /\ svg' = svg /\ scales' = scales /\ ~pending')]_vars

\* unmounted with a drawn chart while the data array holds more points than
\* there are bars: a change that was pending at, or arrived after, the unmount
C16_Witness ==
  phase = "unmounted" /\ svg.groups = 1 /\ Len(props.data) > Len(bars)

\* C17: a render pass for the data array the bars are already bound to creates
\* no element and removes no element, and leaves every bar's geometry unchanged.
C17_SecondPassRefreshOnly ==
  [][(RenderPassStep /\ svgRef' /\ bars # <<>> /\ props'.data = BoundData) =>
       /\ Els(bars') = Els(bars)
       /\ \A i \in DOMAIN bars :
            <<bars'[i].x, bars'[i].y, bars'[i].width, bars'[i].height>> =
              <<bars[i].x, bars[i].y, bars[i].width, bars[i].height>>]_vars

\* C18: the continuous scale's domain is [0, max(value)] and value 0 maps to
\* the baseline: every bar whose value is 0 starts at the baseline and has
\* zero height (vertical chart) or zero width (horizontal chart), also when
\* every value of the array is 0.
C18_ZeroAtBaseline ==
  /\ bars # <<>> => scales.max = MaxValueOf(BoundData)
  /\ \A i \in DOMAIN bars :
       bars[i].d.value = 0 =>
         IF chart = "vertical"
         THEN bars[i].y = R(scales.innerHeight) /\ bars[i].height = R(0)
         ELSE bars[i].x = R(0) /\ bars[i].width = R(0)

\* the value lies in the continuous scale's domain [0, max]
InDomain(v) == 0 <= v /\ v <= scales.max

\* the pixel coordinate the continuous scale gives a bar: its top edge y in
\* the vertical chart, its right edge (= width, bars start at x = 0) in the
\* horizontal chart
ValueCoord(b) == IF chart = "vertical" THEN b.y ELSE b.width

\* the bar's extent along the value axis
ValueExtent(b) == IF chart = "vertical" THEN b.height ELSE b.width

C20_RefusesInvalidDimensions ==
  bars # <<>> =>
    /\ scales.innerWidth > 0
    /\ scales.innerHeight > 0
    /\ \A i \in DOMAIN bars :
         RLe(R(0), bars[i].width) /\ RLe(R(0), bars[i].height)

\* the inner extent of the categorical axis: the width in the vertical chart,
\* the height in the horizontal one
BandExtent == IF chart = "vertical" THEN scales.innerWidth ELSE scales.innerHeight

\* position and size of a bar along the categorical axis
BandCoord(b) == IF chart = "vertical" THEN b.x ELSE b.y

BandSize(b) == IF chart = "vertical" THEN b.width ELSE b.height

\* C21: in both chart variants every bar's band lies inside [0, innerExtent]
\* of the categorical axis and has the position and size that a band scale
\* over that range with padding fraction 0.1 gives its label.
C21_BandPaddingTenth ==
  \A i \in DOMAIN bars :
    /\ RLe(R(0), BandCoord(bars[i]))
    /\ RLe(RAdd(BandCoord(bars[i]), BandSize(bars[i])), R(BandExtent))
    /\ BandCoord(bars[i]) = BandPos(scales.labels, BandExtent, <<1, 10>>, bars[i].d.label)
    /\ BandSize(bars[i]) = Bandwidth(Len(scales.labels), BandExtent, <<1, 10>>)

\* the rendered elements with their geometry, in document order
Geometry(bs) == [i \in DOMAIN bs |-> <<bs[i].el, bs[i].x, bs[i].y, bs[i].width, bs[i].height>>]

\* C22: the rendered elements and their geometry (x, y, width, height) change
\* only in a render pass: a step that handles a mouseenter, mouseleave or
\* click, and any other step that is not a render pass, leaves them as they are.
C22_OnlyPassesTouchBars ==
  [][/\ ~RenderPassStep => Geometry(bars') = Geometry(bars)
     /\ event'.type \in {"mouseenter", "mouseleave", "click"} =>
          Geometry(bars') = Geometry(bars)]_vars

\* the pointer left a bar of a two-bar chart: enter and leave have both run
C22_Witness ==
  event.type = "mouseleave" /\ Len(bars) = 2 /\ ~tooltip.visible /\ svg.groups = 1

\* the tooltip shows the label and the value of the data point p
ShowsPoint(t, p) == t.label = p.label /\ t.value = p.value

\* C23: the chart's one tooltip, when visible, shows the label and value of
\* exactly one data point, and a visible tooltip becomes hidden only in a step
\* that handles a mouseleave, unmounts the chart or replaces the data array.
C23_OneTooltip ==
  [][/\ tooltip'.visible =>
          Cardinality({p \in ChartData : ShowsPoint(tooltip', p)}) = 1
     /\ (tooltip.visible /\ ~tooltip'.visible) =>
          \/ event'.type = "mouseleave"
          \/ phase' = "unmounted"
          \/ props'.data # props.data]_vars

\* a visible tooltip on a mounted chart whose data array was replaced by one
\* without the point it shows
C23_Witness ==
  /\ phase = "mounted" /\ tooltip.visible
  /\ \A i \in DOMAIN props.data : ~ShowsPoint(tooltip, props.data[i])

\* the bars that carry the highlight fill
Highlighted == {i \in DOMAIN bars : bars[i].fill = HighlightFill(chart)}

\* C24: on a mounted chart the tooltip is visible if and only if exactly one
\* bar carries the highlight fill, and that bar is bound to the data point
\* whose label and value the tooltip shows.
C24_TooltipIffHighlight ==
  phase = "mounted" =>
    /\ tooltip.visible <=> Cardinality(Highlighted) = 1
    /\ tooltip.visible => \A i \in Highlighted : ShowsPoint(tooltip, bars[i].d)

\* the data point is an entry of the current data array
InData(p) == \E k \in DOMAIN props.data : props.data[k] = p

\* C25: on a mounted chart with no render pass pending, every rendered bar is
\* bound to an entry of the current data array, and the payload of a bar click
\* just emitted is an entry of the current data array.
C25_BarsBoundToCurrentData ==
  (phase = "mounted" /\ ~pending) =>
    /\ \A i \in DOMAIN bars : InData(bars[i].d)
    /\ event.type = "click" => \A k \in DOMAIN emitted : InData(emitted[k])

\* the inner extent of the value axis: the height in the vertical chart, the
\* width in the horizontal one
ValueAxisExtent == IF chart = "vertical" THEN scales.innerHeight ELSE scales.innerWidth

\* C26: with positive inner extents, every rendered bar's height (vertical
\* chart) or width (horizontal chart) is >= 0 and <= the inner extent of the
\* value axis, for arrays with negative values too.
C26_ExtentWithinAxis ==
  (scales.innerWidth > 0 /\ scales.innerHeight > 0) =>
    \A i \in DOMAIN bars :
      /\ RLe(R(0), ValueExtent(bars[i]))
      /\ RLe(ValueExtent(bars[i]), R(ValueAxisExtent))

HunkOf(d, k) == CHOOSE h \in 1..(k - 1) :
                  d[h].kind = "hunk" /\ \A j \in (h + 1)..(k - 1) : d[j].kind # "hunk"

\* the number the k-th line of the diff has in the new version of its file:
\* the hunk's new start plus the context and added lines before it in the hunk
NewLineNumber(d, k) ==
  d[HunkOf(d, k)].start
    + Cardinality({j \in (HunkOf(d, k) + 1)..(k - 1) : d[j].kind \in {"context", "added"}})

\* the file the k-th line of the diff belongs to
FileOf(d, k) ==
  d[CHOOSE f \in 1..(k - 1) :
      d[f].kind = "file" /\ \A j \in (f + 1)..(k - 1) : d[j].kind # "file"].name

\* C28: every finding the scan records for an added line carries the file of
\* that line and the line number the line has in the new version of the file.
C28_FindingLineNumbers ==
  [][(scan.stage = "scanning" /\ Len(scan'.findings) > Len(scan.findings)) =>
       LET f == scan'.findings[Len(scan'.findings)]
       IN /\ f.file = FileOf(scan.diff, scan.pos)
          /\ f.line = NewLineNumber(scan.diff, scan.pos)]_vars

\* text t is a strict prefix of the matched text m followed by the marker
RedactionOf(t, m) == \E k \in 0..(Len(m) - 1) : t = SubSeq(m, 1, k) \o Marker

\* the texts a pattern matched in the added lines of the diff
MatchedTexts(d) == {d[i].match : i \in {j \in DOMAIN d : d[j].kind = "added" /\ d[j].match # <<>>}}

\* the match texts that appear in the findings, the report and the console
\* output of the scan
RecordedTexts ==
  {scan.findings[i].match : i \in DOMAIN scan.findings}
    \cup {scan.report[i].match : i \in DOMAIN scan.report}
    \cup {scan.console[i][3] : i \in DOMAIN scan.console}

\* C29: every match text in the scan's findings, report and console output is
\* a strict prefix of a matched secret followed by the redaction marker, so
\* none of them contains the full text of a matched secret.
C29_MatchesRedacted ==
  \A t \in RecordedTexts : \E m \in MatchedTexts(scan.diff) : RedactionOf(t, m)

\* the last Copilot attempt of the run timed out, exited non-zero or could
\* not be spawned
CopilotFailed ==
  review.outcomes # <<>> /\ review.outcomes[Len(review.outcomes)] # "ok"

\* C30: a run starts the Copilot process at most MAX_RETRIES times, and a run
\* that has ended after Copilot failed (timeout, non-zero exit, failed spawn)
\* has written the placeholder review and has exit code 0.
C30_BoundedRetriesGraceful ==
  /\ review.spawns <= MAX_RETRIES
  /\ (review.exit # 0 - 1 /\ CopilotFailed) =>
       (review.file = "placeholder" /\ review.exit = 0)

====
